---- MODULE Spec2Model ----
(***************************************************************************)
(* A model of stdlibs/fetch.py: the table generator that downloads each    *)
(* tracked CPython release, scans its build script and source tree for     *)
(* module names, and writes one table per release plus three aggregates.   *)
(*                                                                         *)
(* Python str values that the code inspects (startswith, split, strip,     *)
(* sorted, int) are modelled as sequences of one-character strings, so     *)
(* that every conversion is computed the way the code computes it.         *)
(***************************************************************************)
EXTENDS Integers, Sequences, FiniteSets, TLC

VARIABLES
    \* native-source scan: the loop of regen over the C files
    n_count,        \* files the loop has gone through
    n_cur,          \* the file of the last iteration
    n_before,       \* names and console output before the last iteration
    n_names,        \* local names, from the start of the scan on
    n_printed       \* console output of the scan

scanVars == << n_count, n_cur, n_before, n_names, n_printed >>

VARIABLES
    \* try_parse
    p_pc,           \* position in try_parse
    p_arg,          \* the data argument (None, or the bytes)
    p_file,         \* what the path holds on disk
    p_data,         \* local data
    p_todo,         \* versions the for loop has still to go through
    p_error,        \* local parse_error
    p_outcome,      \* the module returned or the exception raised
    p_attempts      \* grammar versions handed to cst.parse_module so far

parseVars ==
    << p_pc, p_arg, p_file, p_data, p_todo, p_error, p_outcome, p_attempts >>

VARIABLES
    \* ExtensionVisitor, while module.visit(ev) walks the tree
    extension_names,    \* ev.extension_names
    v_count,            \* nodes visited
    v_cur,              \* the node of the last visit
    v_before            \* ev.extension_names before the last visit

visitVars == << extension_names, v_count, v_cur, v_before >>

VARIABLES
    \* regen, from the parsed build script to the table (one release)
    c_pc,           \* position in regen
    c_version,      \* the version argument
    c_names,        \* local names
    c_noalias,      \* names when the "# Aliases" step is reached
    c_file,         \* the table file write_tmpl wrote
    c_ret           \* the set regen returns

collectVars == << c_pc, c_version, c_names, c_noalias, c_file, c_ret >>

VARIABLES
    \* regen_all and the cache directory
    cache,          \* .cache: per release, what is on disk
    r_pc,           \* position in the run
    r_cur,          \* index of the release the for loop is at
    r_runs,         \* runs of the program started so far
    all2,           \* regen_all's all2
    all3,           \* regen_all's all3
    r_written,      \* files write_tmpl wrote in this run
    r_printed,      \* console output of this run
    r_procs,        \* external processes this run invoked, with exit status
    setup_path,     \* regen's setup_path, below base_path
    base_existed,   \* what base_path.exists() gave in this call of regen
    r_parsed,       \* the path and the script try_parse read in this call
    r_ext,          \* ev.extension_names
    r_ret           \* the set regen returned

runVars ==
    << cache, r_pc, r_cur, r_runs, all2, all3, r_written, r_printed, r_procs,
       setup_path, base_existed, r_parsed, r_ext, r_ret >>

vars == << scanVars, parseVars, visitVars, collectVars, runVars >>

(***************************************************************************)
(* Bounds of the model.                                                    *)
(***************************************************************************)
MaxFiles == 2
MaxNodes == 2
NumGrammars == 4
MaxRuns == 2

(***************************************************************************)
(* str helpers                                                             *)
(***************************************************************************)

\* The characters the model uses, in increasing code point order.
CodePoints ==
    << "\n", " ", "\"", "'", "*", "-", ".", "/",
       "0", "1", "2", "3", "4", "5", "6", "7", "8", "9", "=",
       "A", "B", "C", "D", "E", "F", "G", "H", "I", "J", "K", "L", "M",
       "N", "O", "P", "Q", "R", "S", "T", "U", "V", "W", "X", "Y", "Z",
       "_", "a", "b", "c", "d", "e", "f", "g", "h", "i", "j", "k", "l", "m",
       "n", "o", "p", "q", "r", "s", "t", "u", "v", "w", "x", "y", "z" >>

Ord(c) == CHOOSE i \in 1..Len(CodePoints) : CodePoints[i] = c

Whitespace == {" ", "\n"}

Drop(s, n) == SubSeq(s, n + 1, Len(s))

Take(s, n) == SubSeq(s, 1, n)

\* str.startswith(p)
StartsWith(s, p) == Len(s) >= Len(p) /\ Take(s, Len(p)) = p

\* str.endswith(p)
EndsWith(s, p) == Len(s) >= Len(p) /\ Drop(s, Len(s) - Len(p)) = p

\* str.strip(chars): every leading and trailing character of `chars` removed
RECURSIVE LStrip(_, _)
LStrip(s, chars) ==
    IF s # <<>> /\ Head(s) \in chars THEN LStrip(Tail(s), chars) ELSE s

RECURSIVE RStrip(_, _)
RStrip(s, chars) ==
    IF s # <<>> /\ s[Len(s)] \in chars
    THEN RStrip(Take(s, Len(s) - 1), chars)
    ELSE s

StrStrip(s, chars) == RStrip(LStrip(s, chars), chars)

\* The index of the first occurrence of `sep` in s, 0 when there is none.
Find(s, sep) ==
    LET hits == { i \in 1..Len(s) : StartsWith(Drop(s, i - 1), sep) }
    IN  IF hits = {} THEN 0 ELSE CHOOSE i \in hits : \A j \in hits : i <= j

\* str.split(sep): the sequence of the pieces
RECURSIVE Split(_, _)
Split(s, sep) ==
    LET i == Find(s, sep)
    IN  IF i = 0 THEN << s >>
        ELSE << Take(s, i - 1) >> \o Split(Drop(s, i - 1 + Len(sep)), sep)

\* str.replace(old, ""): every occurrence of the character removed
RECURSIVE RemoveChar(_, _)
RemoveChar(s, c) ==
    IF s = <<>> THEN <<>>
    ELSE (IF Head(s) = c THEN <<>> ELSE << Head(s) >>) \o RemoveChar(Tail(s), c)

\* a < b for str: lexicographic on code points, a proper prefix first
RECURSIVE StrLess(_, _)
StrLess(a, b) ==
    IF b = <<>> THEN FALSE
    ELSE IF a = <<>> THEN TRUE
    ELSE IF Head(a) # Head(b) THEN Ord(Head(a)) < Ord(Head(b))
    ELSE StrLess(Tail(a), Tail(b))

\* sorted(data) for a set of str
RECURSIVE Sorted(_)
Sorted(data) ==
    IF data = {} THEN <<>>
    ELSE LET least == CHOOSE x \in data : \A y \in data : x = y \/ StrLess(x, y)
         IN  << least >> \o Sorted(data \ {least})

\* set(names) for a list
ToSet(names) == { names[i] : i \in 1..Len(names) }

\* pathlib: PurePath.suffix of a final path component
PathSuffix(name) ==
    LET dots == { i \in 1..Len(name) : name[i] = "." }
        i == IF dots = {} THEN 0 ELSE CHOOSE d \in dots : \A e \in dots : e <= d
    IN  IF 1 < i /\ i < Len(name) THEN Drop(name, i - 1) ELSE <<>>

\* pathlib: p.with_suffix("").name
Stem(name) == Take(name, Len(name) - Len(PathSuffix(name)))

(***************************************************************************)
(* Native-source scan (regen, the loop over Python/, Modules/ and PC/)     *)
(***************************************************************************)

\* MULTILINE_COMMENT_RE.sub("", s): every /* ... */ that holds no newline
\* is removed, the shortest one from each opening.
RECURSIVE RemoveComments(_)
RemoveComments(s) ==
    IF s = <<>> THEN <<>>
    ELSE IF StartsWith(s, << "/", "*" >>)
         THEN LET body == Drop(s, 2)
                  close == Find(body, << "*", "/" >>)
              IN  IF close # 0 /\ \A k \in 1..(close - 1) : body[k] # "\n"
                  THEN RemoveComments(Drop(body, close + 1))
                  ELSE << Head(s) >> \o RemoveComments(Tail(s))
         ELSE << Head(s) >> \o RemoveComments(Tail(s))

NoMatch == [matched |-> FALSE, group1 |-> <<>>]

\* MODULE_DEF_RE.search(data) or PY2_INITMODULE_RE.search(data)
SearchMatch(data) ==
    IF data.moduledef.matched THEN data.moduledef ELSE data.initmodule

m_name == << ".", "m", "_", "n", "a", "m", "e" >>
QUOTE == << "\"" >>
MODULE_WORD == << "m", "o", "d", "u", "l", "e" >>

OverrideFiles ==
    { << "_", "w", "a", "r", "n", "i", "n", "g", "s", ".", "c" >>,
      << "_", "s", "r", "e", ".", "c" >>,
      << "p", "y", "e", "x", "p", "a", "t", ".", "c" >>,
      << "_", "b", "s", "d", "d", "b", ".", "c" >> }

TransformFiles ==
    { << "s", "o", "c", "k", "e", "t", "m", "o", "d", "u", "l", "e", ".", "c" >>,
      << "p", "o", "s", "i", "x", "m", "o", "d", "u", "l", "e", ".", "c" >> }

\* s after comment removal, strip() and the ".m_name = ..." rewrite
ExtractedText(group1) ==
    LET s == StrStrip(RemoveComments(group1), Whitespace)
    IN  IF StartsWith(s, m_name)
        THEN StrStrip(Split(s, << "=" >>)[2], Whitespace)
        ELSE s

\* One iteration of the loop over the C files: the [names, printed] after it.
NativeStepSwapped(p, names, printed) ==
    LET match == SearchMatch(p.data)
        s == ExtractedText(match.group1)
    IN  IF ~match.matched THEN [names |-> names, printed |-> printed]
        ELSE IF p.name \in OverrideFiles
        THEN [names |-> Append(names, Stem(p.name)), printed |-> printed]
        ELSE IF StartsWith(s, QUOTE) /\ EndsWith(s, QUOTE)
        THEN [names |-> Append(names, StrStrip(s, {"\""})), printed |-> printed]
        ELSE IF p.name \in TransformFiles
        THEN [names |-> Append(names, Split(p.name, MODULE_WORD)[1]),
              printed |-> printed]
        ELSE [names |-> names,
              printed |-> Append(printed, [unknown |-> s, file |-> p.name])]

NativeStep(p, names, printed) ==
    LET match == SearchMatch(p.data)
        s == ExtractedText(match.group1)
    IN  IF ~match.matched THEN [names |-> names, printed |-> printed]
        ELSE IF StartsWith(s, QUOTE) /\ EndsWith(s, QUOTE)
        THEN [names |-> Append(names, StrStrip(s, {"\""})), printed |-> printed]
        ELSE IF p.name \in OverrideFiles
        THEN [names |-> Append(names, Stem(p.name)), printed |-> printed]
        ELSE IF p.name \in TransformFiles
        THEN [names |-> Append(names, Split(p.name, MODULE_WORD)[1]),
              printed |-> printed]
        ELSE [names |-> names,
              printed |-> Append(printed, [unknown |-> s, file |-> p.name])]

\* The whole loop over a listing of C files.
RECURSIVE NativeScan(_, _, _)
NativeScan(files, names, printed) ==
    IF files = <<>> THEN [names |-> names, printed |-> printed]
    ELSE LET r == NativeStep(Head(files), names, printed)
         IN  NativeScan(Tail(files), r.names, r.printed)

\* The module name of the sampled literals.
IoName == << "i", "o" >>

\* Text of match.group(1) in the sampled C files.
G_literal == << "\"", "i", "o", "\"" >>
G_literal_comment == << "\"", "i", "o", "\"", " ", "/", "*", "c", "*", "/" >>
G_field_literal ==
    << ".", "m", "_", "n", "a", "m", "e", " ", "=", " ", "\"", "i", "o", "\"" >>
G_macro == << "N" >>
G_comment_macro == << "/", "*", "\"", "*", "/", " ", "N" >>
G_field_macro == << ".", "m", "_", "n", "a", "m", "e", " ", "=", " ", "N" >>

Group(g) == [matched |-> TRUE, group1 |-> g]

\* The C files the scan is run on: what the two searches find in each. A
\* ".m_name" field always carries its "=", as a designated initializer does.
LiteralData ==
    { [moduledef |-> Group(G_literal), initmodule |-> NoMatch],
      [moduledef |-> Group(G_field_literal), initmodule |-> NoMatch],
      [moduledef |-> NoMatch, initmodule |-> Group(G_literal_comment)] }

UnresolvedData ==
    { [moduledef |-> Group(G_comment_macro), initmodule |-> NoMatch],
      [moduledef |-> Group(G_field_macro), initmodule |-> NoMatch],
      [moduledef |-> NoMatch, initmodule |-> Group(G_macro)],
      [moduledef |-> Group(G_macro), initmodule |-> Group(G_literal)] }

UnmatchedData == { [moduledef |-> NoMatch, initmodule |-> NoMatch] }

OtherFiles == { << "x", "x", ".", "c" >> }

SampleFiles ==
    [name : OverrideFiles \cup TransformFiles \cup OtherFiles,
     data : LiteralData \cup UnresolvedData \cup UnmatchedData]

NoFile == [name |-> <<>>, data |-> [moduledef |-> NoMatch, initmodule |-> NoMatch]]

ScanIdle ==
    /\ n_count = 0
    /\ n_cur = NoFile
    /\ n_before = [names |-> <<>>, printed |-> <<>>]
    /\ n_names = <<>>
    /\ n_printed = <<>>

\* for p in (base_path / subdir).glob("*.c"): one iteration
ScanFile ==
    /\ n_count < MaxFiles
    /\ \E p \in SampleFiles :
          LET r == NativeStep(p, n_names, n_printed)
          IN  /\ n_cur' = p
              /\ n_before' = [names |-> n_names, printed |-> n_printed]
              /\ n_names' = r.names
              /\ n_printed' = r.printed
    /\ n_count' = n_count + 1

    /\ UNCHANGED << parseVars, visitVars, collectVars, runVars >>

(***************************************************************************)
(* try_parse                                                               *)
(***************************************************************************)

None == [none |-> TRUE]

\* cst.KNOWN_PYTHON_VERSION_STRINGS: the grammar versions, oldest first.
KNOWN_PYTHON_VERSION_STRINGS == [i \in 1..NumGrammars |-> i]

\* seq[::-1]
Reversed(seq) == [i \in 1..Len(seq) |-> seq[Len(seq) + 1 - i]]

\* Bytes are told apart by the grammar versions that parse them.
Contents == [accepts : SUBSET (1..NumGrammars)]

Missing == [missing |-> TRUE]

\* cst.parse_module(data, PartialParserConfig(python_version=version))
ParseModule(data, version) ==
    IF version \in data.accepts
    THEN [ok |-> TRUE, module |-> [data |-> data, grammar |-> version]]
    ELSE [ok |-> FALSE, error |-> [syntax_error_of |-> version]]

ParseIdle ==
    /\ p_pc = "idle"
    /\ p_arg = None
    /\ p_file = Missing
    /\ p_data = None
    /\ p_todo = <<>>
    /\ p_error = None
    /\ p_outcome = None
    /\ p_attempts = <<>>

ParseInit ==
    /\ p_pc = "enter"
    /\ p_arg \in {None} \cup Contents
    /\ p_file \in {Missing} \cup Contents
    /\ p_data = None
    /\ p_todo = <<>>
    /\ p_error = None
    /\ p_outcome = None
    /\ p_attempts = <<>>

\* if data is None: data = path.read_bytes(); parse_error = None; the for
\* loop starts over KNOWN_PYTHON_VERSION_STRINGS[::-1]
TryParseEnter ==
    /\ p_pc = "enter"
    /\ IF p_arg = None /\ p_file = Missing
       THEN /\ p_pc' = "raised"
            /\ p_outcome' = [os_error |-> TRUE]
            /\ UNCHANGED << p_data, p_todo >>
       ELSE /\ p_pc' = "loop"
            /\ p_data' = (IF p_arg = None THEN p_file ELSE p_arg)
            /\ p_todo' = Reversed(KNOWN_PYTHON_VERSION_STRINGS)
            /\ UNCHANGED p_outcome
    /\ UNCHANGED << p_arg, p_file, p_error, p_attempts, scanVars, visitVars, collectVars, runVars >>

\* The except branch keeps the latest error instead of the first.
KeptErrorLatest(parse_error, e) == e

\* if parse_error is None: parse_error = e
KeptError(parse_error, e) == IF parse_error = None THEN e ELSE parse_error

\* One iteration of the for loop: the try, and its except branch.
TryParseAttempt ==
    /\ p_pc = "loop"
    /\ p_todo # <<>>
    /\ LET version == Head(p_todo)
           r == ParseModule(p_data, version)
       IN  /\ p_attempts' = Append(p_attempts, version)
           /\ IF r.ok
              THEN /\ p_pc' = "returned"
                   /\ p_outcome' = r.module
                   /\ UNCHANGED << p_todo, p_error >>
              ELSE /\ p_error' = KeptError(p_error, r.error)
                   /\ p_todo' = Tail(p_todo)
                   /\ UNCHANGED << p_pc, p_outcome >>
    /\ UNCHANGED << p_arg, p_file, p_data, scanVars, visitVars, collectVars, runVars >>

\* raise parse_error or Exception("unknown parse failure")
TryParseRaise ==
    /\ p_pc = "loop"
    /\ p_todo = <<>>
    /\ p_pc' = "raised"
    /\ p_outcome' = (IF p_error # None THEN p_error ELSE [unknown |-> TRUE])
    /\ UNCHANGED << p_arg, p_file, p_data, p_todo, p_error, p_attempts, scanVars, visitVars, collectVars, runVars >>

(***************************************************************************)
(* ExtensionVisitor                                                        *)
(***************************************************************************)

\* libcst nodes, by the fields the matchers and the visitor read.
Name(v) == [type |-> "Name", value |-> v]
SimpleString(tok) == [type |-> "SimpleString", value |-> tok]
Attribute(v, a) == [type |-> "Attribute", value |-> Name(v), attr |-> Name(a)]
List(elements) == [type |-> "List", elements |-> elements]
Element(v) == [type |-> "Element", value |-> v]
StarredElement(v) == [type |-> "StarredElement", value |-> v]
Arg(v) == [type |-> "Arg", value |-> v, keyword |-> None, star |-> ""]
KeywordArg(k, v) == [type |-> "Arg", value |-> v, keyword |-> Name(k), star |-> ""]
Call(func, args) == [type |-> "Call", func |-> func, args |-> args]
AssignTarget(t) == [type |-> "AssignTarget", target |-> t]
Assign(targets, value) == [type |-> "Assign", targets |-> targets, value |-> value]
AugAssign(target, value) == [type |-> "AugAssign", target |-> target, value |-> value]

\* SimpleString.evaluated_value, for a token with one-character quotes and
\* neither prefix nor escape: the text between the quotes.
EvaluatedValue(node) == SubSeq(node.value, 2, Len(node.value) - 1)

\* The matcher accepts any call target.
ExtractCallAnyFunc(node) ==
    IF /\ node.type = "Call"
       /\ Len(node.args) >= 1
       /\ node.args[1].value.type = "SimpleString"
    THEN [extension_name |-> node.args[1].value]
    ELSE None

\* m.extract(node, m.Call(func=OneOf(Name("Extension"),
\* Name("addMacExtension")), args=(Arg(value=SaveMatchedNode(SimpleString())),
\* ZeroOrMore(DoNotCare())))): fields a matcher does not name match anything.
ExtractCall(node) ==
    IF /\ node.type = "Call"
       /\ node.func \in {Name("Extension"), Name("addMacExtension")}
       /\ Len(node.args) >= 1
       /\ node.args[1].value.type = "SimpleString"
    THEN [extension_name |-> node.args[1].value]
    ELSE None

\* m.extract(node, m.Assign(targets=(AssignTarget(target=Name("CARBON_EXTS")),),
\* value=SaveMatchedNode(List())))
ExtractAssign(node) ==
    IF /\ node.type = "Assign"
       /\ Len(node.targets) = 1
       /\ node.targets[1].target = Name("CARBON_EXTS")
       /\ node.value.type = "List"
    THEN [list |-> node.value]
    ELSE None

\* ExtensionVisitor.visit_Call: extension_names after the visit
visit_Call(names, node) ==
    LET d == ExtractCall(node)
    IN  IF d # None THEN Append(names, EvaluatedValue(d.extension_name)) ELSE names

\* The for loop of visit_Assign over d["list"].elements
RECURSIVE AppendStrings(_, _)
AppendStrings(names, elements) ==
    IF elements = <<>> THEN names
    ELSE AppendStrings(
            IF Head(elements).value.type = "SimpleString"
            THEN Append(names, EvaluatedValue(Head(elements).value))
            ELSE names,
            Tail(elements))

\* ExtensionVisitor.visit_Assign: extension_names after the visit
visit_Assign(names, node) ==
    LET d == ExtractAssign(node)
    IN  IF d # None THEN AppendStrings(names, d.list.elements) ELSE names

\* Tokens and names of the sampled build-script nodes.
Tok_a == << "'", "a", "'" >>
Tok_Qt == << "\"", "_", "Q", "t", "\"" >>
Tok_C == << "\"", "C", "\"" >>

SampleArgs ==
    { <<>>,
      << Arg(SimpleString(Tok_a)) >>,
      << Arg(SimpleString(Tok_a)), Arg(List(<< Element(SimpleString(Tok_C)) >>)) >>,
      << Arg(SimpleString(Tok_a)), KeywordArg("libraries", SimpleString(Tok_C)) >>,
      << KeywordArg("name", SimpleString(Tok_a)) >>,
      << Arg(Name("x")), Arg(SimpleString(Tok_a)) >>,
      << Arg(Name("x")), KeywordArg("name", SimpleString(Tok_a)) >>,
      << Arg(Name("x")) >>,
      << Arg(List(<< Element(SimpleString(Tok_a)) >>)) >> }

SampleFuncs ==
    { Name("Extension"), Name("addMacExtension"), Name("setup"),
      Attribute("self", "Extension"),
      Call(Name("Extension"), << Arg(SimpleString(Tok_C)) >>) }

SampleCalls == { Call(f, a) : f \in SampleFuncs, a \in SampleArgs }

SampleTargets ==
    { << AssignTarget(Name("CARBON_EXTS")) >>,
      << AssignTarget(Name("exts")) >>,
      << AssignTarget(Name("CARBON_EXTS")), AssignTarget(Name("exts")) >>,
      << AssignTarget(Name("exts")), AssignTarget(Name("CARBON_EXTS")) >>,
      << AssignTarget(Attribute("self", "CARBON_EXTS")) >> }

SampleValues ==
    { List(<< Element(SimpleString(Tok_Qt)), Element(SimpleString(Tok_C)) >>),
      List(<< Element(Name("x")), Element(SimpleString(Tok_Qt)) >>),
      List(<< Element(SimpleString(Tok_C)), Element(List(<< Element(SimpleString(Tok_a)) >>)),
              Element(SimpleString(Tok_C)) >>),
      List(<<>>),
      SimpleString(Tok_Qt),
      Name("x") }

SampleAssigns == { Assign(t, v) : t \in SampleTargets, v \in SampleValues }

SampleOthers ==
    { AugAssign(Name("CARBON_EXTS"), List(<< Element(SimpleString(Tok_Qt)) >>)),
      SimpleString(Tok_a),
      List(<< Element(SimpleString(Tok_a)) >>),
      Name("Extension") }

NoNode == [type |-> "None"]

VisitIdle ==
    /\ extension_names = <<>>
    /\ v_count = 0
    /\ v_cur = NoNode
    /\ v_before = <<>>

\* The traversal reaches a Call node.
VisitCall ==
    /\ v_count < MaxNodes
    /\ \E node \in SampleCalls :
          /\ v_cur' = node
          /\ extension_names' = visit_Call(extension_names, node)
    /\ v_before' = extension_names
    /\ v_count' = v_count + 1
    /\ UNCHANGED << scanVars, parseVars, collectVars, runVars >>

\* The traversal reaches an Assign node.
VisitAssign ==
    /\ v_count < MaxNodes
    /\ \E node \in SampleAssigns :
          /\ v_cur' = node
          /\ extension_names' = visit_Assign(extension_names, node)
    /\ v_before' = extension_names
    /\ v_count' = v_count + 1
    /\ UNCHANGED << scanVars, parseVars, collectVars, runVars >>

\* The traversal reaches a node the visitor has no method for.
VisitOther ==
    /\ v_count < MaxNodes
    /\ \E node \in SampleOthers : v_cur' = node
    /\ v_before' = extension_names
    /\ v_count' = v_count + 1
    /\ UNCHANGED << extension_names, scanVars, parseVars, collectVars, runVars >>

(***************************************************************************)
(* regen: collecting the names of one release, and write_tmpl              *)
(***************************************************************************)

\* RELEASES: the version labels, in the order of the dict.
RELEASES ==
    << << "2", ".", "3" >>, << "2", ".", "4" >>, << "2", ".", "5" >>,
       << "2", ".", "6" >>, << "2", ".", "7" >>, << "3", ".", "0" >>,
       << "3", ".", "1" >>, << "3", ".", "2" >>, << "3", ".", "3" >>,
       << "3", ".", "4" >>, << "3", ".", "5" >>, << "3", ".", "6" >>,
       << "3", ".", "7" >>, << "3", ".", "8" >>, << "3", ".", "9" >>,
       << "3", ".", "1", "0" >> >>

Digits == << "0", "1", "2", "3", "4", "5", "6", "7", "8", "9" >>

DigitValue(c) == (CHOOSE i \in 1..10 : Digits[i] = c) - 1

\* int(x) for a str of decimal digits
RECURSIVE ParseInt(_)
ParseInt(x) ==
    IF x = <<>> THEN 0
    ELSE 10 * ParseInt(Take(x, Len(x) - 1)) + DigitValue(x[Len(x)])

\* tuple(int(x) for x in version.split("."))
VersionTuple(version) ==
    LET parts == Split(version, << "." >>)
    IN  [i \in 1..Len(parts) |-> ParseInt(parts[i])]

\* a >= b for tuples of int
RECURSIVE TupleGE(_, _)
TupleGE(a, b) ==
    IF b = <<>> THEN TRUE
    ELSE IF a = <<>> THEN FALSE
    ELSE IF Head(a) # Head(b) THEN Head(a) > Head(b)
    ELSE TupleGE(Tail(a), Tail(b))

\* The threshold compares the labels as str.
AtLeastAsText(version, major, minor) ==
    ~ StrLess(version, << Digits[major + 1], ".", Digits[minor + 1] >>)

\* version_tuple >= (major, minor)
AtLeast(version, major, minor) ==
    TupleGE(VersionTuple(version), << major, minor >>)

N_frozen_importlib ==
    << "_", "f", "r", "o", "z", "e", "n", "_",
       "i", "m", "p", "o", "r", "t", "l", "i", "b" >>

N_frozen_importlib_external ==
    N_frozen_importlib \o << "_", "e", "x", "t", "e", "r", "n", "a", "l" >>

\* The "# Aliases" step: names after it
Aliases(version, names) ==
    LET n1 == IF AtLeast(version, 3, 3) THEN Append(names, N_frozen_importlib)
              ELSE names
    IN  IF AtLeast(version, 3, 5) THEN Append(n1, N_frozen_importlib_external)
        ELSE n1

PLAT == << "p", "l", "a", "t", "-" >>
LIB == << "l", "i", "b", "-" >>
DOT_PY == << ".", "p", "y" >>
N_pycache == << "_", "_", "p", "y", "c", "a", "c", "h", "e", "_", "_" >>
N_site_packages ==
    << "s", "i", "t", "e", "-", "p", "a", "c", "k", "a", "g", "e", "s" >>
N_test == << "t", "e", "s", "t" >>

\* The inner loop, for path in p.iterdir()
RECURSIVE LibSupportDir(_, _)
LibSupportDir(children, names) ==
    IF children = <<>> THEN names
    ELSE LET path == Head(children)
             next == IF path.is_dir /\ ~ StartsWith(path.name, LIB)
                     THEN Append(names, path.name)
                     ELSE IF EndsWith(path.name, DOT_PY)
                     THEN Append(names, Stem(path.name))
                     ELSE names
         IN  LibSupportDir(Tail(children), next)

\* for p in (base_path / "Lib").glob("*")
RECURSIVE LibScan(_, _)
LibScan(entries, names) ==
    IF entries = <<>> THEN names
    ELSE LET p == Head(entries)
             name == Split(Stem(p.name), << "." >>)[1]
             next == IF StartsWith(p.name, PLAT) \/ StartsWith(p.name, LIB)
                     THEN LibSupportDir(p.children, names)
                     ELSE IF name \notin {N_pycache, N_site_packages, N_test}
                     THEN Append(names, name)
                     ELSE names
         IN  LibScan(Tail(entries), next)

N_main == << "_", "_", "m", "a", "i", "n", "_", "_" >>

\* for match in INITTAB_RE.finditer(...): the groups of one table
RECURSIVE InittabNames(_, _)
InittabNames(groups, names) ==
    IF groups = <<>> THEN names
    ELSE InittabNames(Tail(groups),
                      IF Head(groups) = N_main THEN names
                      ELSE Append(names, Head(groups)))

\* for path in (PC/config.c, PC/os2vacpp/config.c)
RECURSIVE InittabScan(_, _)
InittabScan(configs, names) ==
    IF configs = <<>> THEN names
    ELSE InittabScan(Tail(configs),
                     IF ~ Head(configs).exists THEN names
                     ELSE InittabNames(Head(configs).groups, names))

\* write_tmpl's lines: one per member of data, in sorted order
TableLines(data) == Sorted(data)

\* f"py{version.replace('.', '')}.py"
TableName(version) == << "p", "y" >> \o RemoveChar(version, ".") \o DOT_PY

\* write_tmpl(name, data): the file written
write_tmpl(name, data) == [name |-> name, lines |-> TableLines(data)]

\* regen from "names = ev.extension_names[:]" to the "# Aliases" step
ScannedNames(ext, tree) ==
    InittabScan(tree.inittab,
                NativeScan(tree.native, LibScan(tree.lib, ext), <<>>).names)

\* Names and directory entries of the sampled release trees.
N_os == << "o", "s" >>
N_xx == << "x", "x" >>
N_Carbon == << "C", "a", "r", "b", "o", "n" >>
N_phello == << "_", "_", "p", "h", "e", "l", "l", "o", "_", "_" >>

File(name) == [name |-> name, is_dir |-> FALSE, children |-> <<>>]
Dir(name, children) == [name |-> name, is_dir |-> TRUE, children |-> children]

E_os_py == File(N_os \o DOT_PY)
E_phello_foo_py == File(N_phello \o << ".", "f", "o", "o" >> \o DOT_PY)
E_main_py == File(N_main \o DOT_PY)
E_cvsignore == File(<< ".", "c", "v", "s", "i", "g", "n", "o", "r", "e" >>)
E_plat_mac ==
    Dir(PLAT \o << "m", "a", "c" >>,
        << Dir(N_Carbon, <<>>),
           Dir(LIB \o << "s", "c", "r", "i", "p", "t" >>, <<>>),
           File(N_xx \o DOT_PY),
           File(<< "R", "E", "A", "D", "M", "E" >>) >>)

\* Listings of Lib/.
SampleLib ==
    { << E_os_py, Dir(N_test, <<>>), E_phello_foo_py >>,
      << E_plat_mac, E_os_py >>,
      << Dir(N_pycache, <<>>), Dir(N_site_packages, <<>>), Dir(N_xx, <<>>) >>,
      << E_cvsignore, E_os_py >>,
      << E_main_py, E_os_py >> }

\* ev.extension_names of the parsed build script.
SampleExt == { <<>>, << N_xx >>, << IoName, IoName >> }

\* Listings of the C files of Python/, Modules/ and PC/, in that order.
SampleNative ==
    { <<>>,
      << [name |-> << "x", "x", ".", "c" >>,
          data |-> [moduledef |-> Group(G_literal), initmodule |-> NoMatch]] >>,
      << [name |-> << "_", "s", "r", "e", ".", "c" >>,
          data |-> [moduledef |-> NoMatch, initmodule |-> Group(G_macro)]],
         [name |-> << "x", "x", ".", "c" >>,
          data |-> [moduledef |-> Group(G_field_macro), initmodule |-> NoMatch]] >> }

Config(groups) == [exists |-> TRUE, groups |-> groups]
NoConfig == [exists |-> FALSE, groups |-> <<>>]

\* PC/config.c and PC/os2vacpp/config.c: the names INITTAB_RE finds.
SampleInittab ==
    { << NoConfig, NoConfig >>,
      << Config(<< N_os, N_main, IoName >>), NoConfig >>,
      << Config(<< IoName >>), Config(<< N_main, N_xx >>) >> }

SampleTrees == [lib : SampleLib, native : SampleNative, inittab : SampleInittab]

CollectIdle ==
    /\ c_pc = "idle"
    /\ c_version = <<>>
    /\ c_names = <<>>
    /\ c_noalias = <<>>
    /\ c_file = None
    /\ c_ret = {}

\* regen(version) has parsed the build script and run the visitor.
CollectInit ==
    /\ c_pc = "lib"
    /\ c_version \in ToSet(RELEASES)
    /\ c_names = <<>>
    /\ c_noalias = <<>>
    /\ c_file = None
    /\ c_ret = {}

\* names = ev.extension_names[:] and the loop over Lib/
CollectLib ==
    /\ c_pc = "lib"
    /\ \E ext \in SampleExt, lib \in SampleLib : c_names' = LibScan(lib, ext)
    /\ c_pc' = "native"
    /\ UNCHANGED << c_version, c_noalias, c_file, c_ret >>
    /\ UNCHANGED << scanVars, parseVars, visitVars, runVars >>

\* The loop over the C files of the three directories
CollectNative ==
    /\ c_pc = "native"
    /\ \E files \in SampleNative : c_names' = NativeScan(files, c_names, <<>>).names
    /\ c_pc' = "inittab"
    /\ UNCHANGED << c_version, c_noalias, c_file, c_ret >>
    /\ UNCHANGED << scanVars, parseVars, visitVars, runVars >>

\* The loop over the two platform configuration files
CollectInittab ==
    /\ c_pc = "inittab"
    /\ \E configs \in SampleInittab : c_names' = InittabScan(configs, c_names)
    /\ c_pc' = "aliases"
    /\ UNCHANGED << c_version, c_noalias, c_file, c_ret >>
    /\ UNCHANGED << scanVars, parseVars, visitVars, runVars >>

\* The "# Aliases" step
CollectAliases ==
    /\ c_pc = "aliases"
    /\ c_noalias' = c_names
    /\ c_names' = Aliases(c_version, c_names)
    /\ c_pc' = "write"
    /\ UNCHANGED << c_version, c_file, c_ret >>
    /\ UNCHANGED << scanVars, parseVars, visitVars, runVars >>

\* write_tmpl(f"py...", set(names)); print; return set(names)
CollectWrite ==
    /\ c_pc = "write"
    /\ c_file' = write_tmpl(TableName(c_version), ToSet(c_names))
    /\ c_ret' = ToSet(c_names)
    /\ c_pc' = "returned"
    /\ UNCHANGED << c_version, c_names, c_noalias >>
    /\ UNCHANGED << scanVars, parseVars, visitVars, runVars >>

(***************************************************************************)
(* regen_all and regen: the run over the releases and the cache            *)
(***************************************************************************)

\* PY2_LINES_TO_OMIT
OMIT_join ==
    << "j", "o", "i", "n", "(", "F", ",", " ", "f", "w", " ", "+", " ",
           "'", ".", "f", "r", "a", "m", "e", "w", "o", "r", "k", "'",
           ",", " ", "H", ")" >>
OMIT_for_fw ==
    << "f", "o", "r", " ", "f", "w", " ", "i", "n", " ", "'", "T", "c",
           "l", "'", ",", " ", "'", "T", "k", "'" >>
OMIT_for_fw_tuple ==
    << "f", "o", "r", " ", "f", "w", " ", "i", "n", " ", "(", "'", "T",
           "c", "l", "'", ",", " ", "'", "T", "k", "'", ")" >>
OMIT_for_H ==
    << "f", "o", "r", " ", "H", " ", "i", "n", " ", "'", "H", "e", "a",
           "d", "e", "r", "s", "'", ",", " ", "'", "V", "e", "r", "s",
           "i", "o", "n", "s", "/", "C", "u", "r", "r", "e", "n", "t",
           "/", "P", "r", "i", "v", "a", "t", "e", "H", "e", "a", "d",
           "e", "r", "s", "'" >>

PY2_LINES_TO_OMIT == { OMIT_join, OMIT_for_fw, OMIT_for_fw_tuple, OMIT_for_H }

\* line.strip() not in PY2_LINES_TO_OMIT
KeptLine(line) == StrStrip(line, Whitespace) \notin PY2_LINES_TO_OMIT

\* Lines of the sampled build scripts, as splitlines(True) gives them.
LINE_plain ==
    << "x", " ", "=", " ", "1", "\n" >>
LINE_for_fw ==
    << " ", " ", " ", " ", "f", "o", "r", " ", "f", "w", " ", "i", "n",
           " ", "'", "T", "c", "l", "'", ",", " ", "'", "T", "k", "'",
           "\n" >>
LINE_for_fw_colon ==
    << "f", "o", "r", " ", "f", "w", " ", "i", "n", " ", "'", "T", "c",
           "l", "'", ",", " ", "'", "T", "k", "'", ":", "\n" >>
LINE_for_H ==
    << " ", " ", "f", "o", "r", " ", "H", " ", "i", "n", " ", "'", "H",
           "e", "a", "d", "e", "r", "s", "'", ",", " ", "'", "V", "e",
           "r", "s", "i", "o", "n", "s", "/", "C", "u", "r", "r", "e",
           "n", "t", "/", "P", "r", "i", "v", "a", "t", "e", "H", "e",
           "a", "d", "e", "r", "s", "'", "\n" >>

\* The releases the run is modelled over: a part of RELEASES, in its order,
\* with two labels of each major version and both sides of the thresholds.
Tracked ==
    << << "2", ".", "6" >>, << "2", ".", "7" >>,
       << "3", ".", "4" >>, << "3", ".", "1", "0" >> >>

\* version.startswith("2")
Legacy(version) == StartsWith(version, << "2" >>)

EmptyTree == [lib |-> <<>>, native |-> <<>>, inittab |-> << NoConfig, NoConfig >>]

TreeA ==
    [lib |-> << E_plat_mac, E_os_py >>,
     native |-> <<>>,
     inittab |-> << Config(<< N_os, N_main, IoName >>), NoConfig >>]

TreeB ==
    [lib |-> << E_os_py, Dir(N_test, <<>>), E_phello_foo_py >>,
     native |-> << [name |-> << "x", "x", ".", "c" >>,
                    data |-> [moduledef |-> Group(G_literal), initmodule |-> NoMatch]] >>,
     inittab |-> << NoConfig, NoConfig >>]

TreeC ==
    [lib |-> << Dir(N_pycache, <<>>), Dir(N_xx, <<>>) >>,
     native |-> << [name |-> << "_", "s", "r", "e", ".", "c" >>,
                    data |-> [moduledef |-> NoMatch, initmodule |-> Group(G_macro)]] >>,
     inittab |-> << NoConfig, NoConfig >>]

\* A script: its grammar, its lines, and the extension names it declares.
Script(syntax, lines, ext) == [syntax |-> syntax, lines |-> lines, ext |-> ext]

\* What the archive of a release unpacks to.
Tarballs(version) ==
    IF Legacy(version)
    THEN { [setup |-> Script("py2", << LINE_plain, LINE_for_fw, LINE_for_fw_colon >>,
                             << N_Carbon >>),
            tree |-> TreeA],
           [setup |-> Script("py2", << LINE_for_H, LINE_plain >>, <<>>),
            tree |-> TreeB] }
    ELSE { [setup |-> Script("py3", << LINE_plain >>, << N_xx >>), tree |-> TreeB],
           [setup |-> Script("py3", << LINE_plain, LINE_plain >>, <<>>), tree |-> TreeC] }

\* lib2to3 -n -w -o fixed setup.py: the migrated copy
Migrate(script) == [script EXCEPT !.syntax = "py3"]

\* lines = [line for line in lines if line.strip() not in PY2_LINES_TO_OMIT]
OmitLines(script) == [script EXCEPT !.lines = SelectSeq(script.lines, KeptLine)]

\* The grammar versions that parse a script: none parses 2.x syntax or a
\* line of the migration tool's output that the denylist names.
Bytes(script) ==
    [accepts |-> IF /\ script.syntax = "py3"
                    /\ \A i \in 1..Len(script.lines) : KeptLine(script.lines[i])
                 THEN 1..NumGrammars
                 ELSE {}]

\* The for loop of try_parse, and the raise after it
RECURSIVE TryParseLoop(_, _, _)
TryParseLoop(todo, data, parse_error) ==
    IF todo = <<>>
    THEN [ok |-> FALSE,
          error |-> IF parse_error # None THEN parse_error ELSE [unknown |-> TRUE]]
    ELSE LET r == ParseModule(data, Head(todo))
         IN  IF r.ok THEN r
             ELSE TryParseLoop(Tail(todo), data, KeptError(parse_error, r.error))

\* try_parse(path) on bytes read from the path
try_parse(data) == TryParseLoop(Reversed(KNOWN_PYTHON_VERSION_STRINGS), data, None)

NotCached ==
    [base |-> FALSE, archive |-> FALSE, setup |-> Missing, fixed |-> Missing,
     tree |-> EmptyTree]

PY2_FILE == << "p", "y", "2", ".", "p", "y" >>
PY3_FILE == << "p", "y", "3", ".", "p", "y" >>
PY_FILE == << "p", "y", ".", "p", "y" >>

\* Path.write_text on a file of the output directory
WriteFile(files, f) == { g \in files : g.name # f.name } \cup {f}

\* The exit status is not looked at (subprocess.call).
RaisesNever(rc) == FALSE

\* subprocess.check_call raises CalledProcessError on a non-zero exit status
Raises(rc) == rc # 0

ExitCodes == {0, 1}

\* py.py holds the 3.x names only.
CombinedOnly3(a2, a3) == a3

\* all2 | all3
Combined(a2, a3) == a2 \cup a3

RunIdle ==
    /\ cache = [v \in ToSet(Tracked) |-> NotCached]
    /\ r_pc = "idle"
    /\ r_cur = 1
    /\ r_runs = 0
    /\ all2 = {}
    /\ all3 = {}
    /\ r_written = {}
    /\ r_printed = <<>>
    /\ r_procs = <<>>
    /\ setup_path = "setup.py"
    /\ base_existed = FALSE
    /\ r_parsed = None
    /\ r_ext = <<>>
    /\ r_ret = {}

\* python fetch.py: regen_all() starts
StartRun ==
    /\ r_pc \in {"idle", "done", "aborted"}
    /\ r_runs < MaxRuns
    /\ r_runs' = r_runs + 1
    /\ r_pc' = "regen"
    /\ r_cur' = 1
    /\ all2' = {}
    /\ all3' = {}
    /\ r_written' = {}
    /\ r_printed' = <<>>
    /\ r_procs' = <<>>
    /\ r_parsed' = None
    /\ r_ext' = <<>>
    /\ r_ret' = {}
    /\ UNCHANGED << cache, setup_path, base_existed >>
    /\ UNCHANGED << scanVars, parseVars, visitVars, collectVars >>

Version == Tracked[r_cur]

\* A cached 2.x release is migrated again.
RegenEnterMigratesAgain ==
    /\ r_pc = "regen"
    /\ base_existed' = cache[Version].base
    /\ r_parsed' = None
    /\ IF ~ cache[Version].base
       THEN /\ setup_path' = "setup.py"
            /\ r_pc' = "wget"
       ELSE /\ setup_path' = "setup.py"
            /\ r_pc' = (IF Legacy(Version) THEN "lib2to3" ELSE "parse")
    /\ UNCHANGED << cache, r_cur, r_runs, all2, all3, r_written, r_printed,
                    r_procs, r_ext, r_ret >>
    /\ UNCHANGED << scanVars, parseVars, visitVars, collectVars >>

\* regen(version): base_path, setup_path, and the test base_path.exists()
RegenEnter ==
    /\ r_pc = "regen"
    /\ base_existed' = cache[Version].base
    /\ r_parsed' = None
    /\ IF ~ cache[Version].base
       THEN /\ setup_path' = "setup.py"
            /\ r_pc' = "wget"
       ELSE /\ setup_path' = (IF Legacy(Version) THEN "fixed/setup.py" ELSE "setup.py")
            /\ r_pc' = "parse"
    /\ UNCHANGED << cache, r_cur, r_runs, all2, all3, r_written, r_printed,
                    r_procs, r_ext, r_ret >>
    /\ UNCHANGED << scanVars, parseVars, visitVars, collectVars >>

Invoked(tool, rc) == Append(r_procs, [tool |-> tool, version |-> Version, rc |-> rc])

\* Path(".cache").mkdir(exist_ok=True); check_call(["wget", "-c", url])
Wget ==
    /\ r_pc = "wget"
    /\ \E rc \in ExitCodes :
          /\ r_procs' = Invoked("wget", rc)
          /\ IF Raises(rc)
             THEN r_pc' = "aborted" /\ UNCHANGED cache
             ELSE /\ r_pc' = "tar"
                  /\ cache' = [cache EXCEPT ![Version].archive = TRUE]
    /\ UNCHANGED << r_cur, r_runs, all2, all3, r_written, r_printed, setup_path,
                    base_existed, r_parsed, r_ext, r_ret >>
    /\ UNCHANGED << scanVars, parseVars, visitVars, collectVars >>

\* What an extraction that failed may leave in the cache: nothing, the
\* directory alone, or the directory with the build script and no more.
PartialExtractions(version) ==
    { [base |-> FALSE, archive |-> TRUE, setup |-> Missing, fixed |-> Missing,
       tree |-> EmptyTree],
      [base |-> TRUE, archive |-> TRUE, setup |-> Missing, fixed |-> Missing,
       tree |-> EmptyTree] }
    \cup { [base |-> TRUE, archive |-> TRUE, setup |-> t.setup, fixed |-> Missing,
            tree |-> EmptyTree] : t \in Tarballs(version) }

\* check_call(["tar", "-xvzf", archive]); nothing cleans up after a failed
\* extraction
Tar ==
    /\ r_pc = "tar"
    /\ \E rc \in ExitCodes :
          /\ r_procs' = Invoked("tar", rc)
          /\ IF Raises(rc)
             THEN /\ r_pc' = "aborted"
                  /\ \E left \in PartialExtractions(Version) :
                        cache' = [cache EXCEPT ![Version] = left]
             ELSE /\ r_pc' = (IF Legacy(Version) THEN "lib2to3" ELSE "parse")
                  /\ \E t \in Tarballs(Version) :
                        cache' = [cache EXCEPT ![Version] =
                                    [base |-> TRUE, archive |-> TRUE, setup |-> t.setup,
                                     fixed |-> Missing, tree |-> t.tree]]
    /\ UNCHANGED << r_cur, r_runs, all2, all3, r_written, r_printed, setup_path,
                    base_existed, r_parsed, r_ext, r_ret >>
    /\ UNCHANGED << scanVars, parseVars, visitVars, collectVars >>

\* (base_path / "fixed").mkdir(exist_ok=True); check_call([python, "-m",
\* "lib2to3", "-n", "-w", "-o", fixed, setup.py]); the tool exits non-zero
\* when there is no setup.py to migrate
Lib2to3 ==
    /\ r_pc = "lib2to3"
    /\ \E rc \in (IF cache[Version].setup = Missing THEN {1} ELSE ExitCodes) :
          /\ r_procs' = Invoked("lib2to3", rc)
          /\ IF Raises(rc)
             THEN r_pc' = "aborted" /\ UNCHANGED cache
             ELSE /\ r_pc' = "strip"
                  /\ cache' = [cache EXCEPT
                                 ![Version].fixed = Migrate(cache[Version].setup)]
    /\ UNCHANGED << r_cur, r_runs, all2, all3, r_written, r_printed, setup_path,
                    base_existed, r_parsed, r_ext, r_ret >>
    /\ UNCHANGED << scanVars, parseVars, visitVars, collectVars >>

\* setup_path = fixed/setup.py; read_text, the filter, write_text. When the
\* read or the write raises, the migrated copy stays as the tool wrote it.
Strip ==
    /\ r_pc = "strip"
    /\ setup_path' = "fixed/setup.py"
    /\ \E raised \in BOOLEAN :
          IF raised
          THEN r_pc' = "aborted" /\ UNCHANGED cache
          ELSE /\ r_pc' = "parse"
               /\ cache' = [cache EXCEPT
                              ![Version].fixed = OmitLines(cache[Version].fixed)]
    /\ UNCHANGED << r_cur, r_runs, all2, all3, r_written, r_printed, r_procs,
                    base_existed, r_parsed, r_ext, r_ret >>
    /\ UNCHANGED << scanVars, parseVars, visitVars, collectVars >>

\* The file setup_path names in the cache of the current release.
ScriptAt(path) ==
    IF path = "fixed/setup.py" THEN cache[Version].fixed ELSE cache[Version].setup

\* module = try_parse(setup_path); ev = ExtensionVisitor(); module.visit(ev)
Parse ==
    /\ r_pc = "parse"
    /\ LET script == ScriptAt(setup_path)
       IN  IF script = Missing
           THEN r_pc' = "aborted" /\ UNCHANGED << r_parsed, r_ext >>
           ELSE /\ r_parsed' = [version |-> Version, path |-> setup_path,
                                 script |-> script]
                /\ IF try_parse(Bytes(script)).ok
                   THEN r_pc' = "collect" /\ r_ext' = script.ext
                   ELSE r_pc' = "aborted" /\ UNCHANGED r_ext
    /\ UNCHANGED << cache, r_cur, r_runs, all2, all3, r_written, r_printed,
                    r_procs, setup_path, base_existed, r_ret >>
    /\ UNCHANGED << scanVars, parseVars, visitVars, collectVars >>

\* regen from "# Python files" to its return
Collect ==
    /\ r_pc = "collect"
    /\ LET names == Aliases(Version, ScannedNames(r_ext, cache[Version].tree))
       IN  /\ r_written' =
                 WriteFile(r_written, write_tmpl(TableName(Version), ToSet(names)))
           /\ r_ret' = ToSet(names)
    /\ r_printed' = Append(r_printed, [text |-> "done.", version |-> Version])
    /\ r_pc' = "accumulate"
    /\ UNCHANGED << cache, r_cur, r_runs, all2, all3, r_procs, setup_path,
                    base_existed, r_parsed, r_ext >>
    /\ UNCHANGED << scanVars, parseVars, visitVars, collectVars >>

\* regen_all: the body of the for loop after names = regen(v)
Accumulate ==
    /\ r_pc = "accumulate"
    /\ IF Legacy(Version)
       THEN all2' = all2 \cup r_ret /\ UNCHANGED all3
       ELSE IF StartsWith(Version, << "3" >>)
       THEN all3' = all3 \cup r_ret /\ UNCHANGED all2
       ELSE UNCHANGED << all2, all3 >>
    /\ IF ~ (Legacy(Version) \/ StartsWith(Version, << "3" >>))
       THEN r_pc' = "aborted" /\ UNCHANGED r_cur
       ELSE IF r_cur < Len(Tracked)
       THEN r_pc' = "regen" /\ r_cur' = r_cur + 1
       ELSE r_pc' = "aggregate" /\ UNCHANGED r_cur
    /\ UNCHANGED << cache, r_runs, r_written, r_printed, r_procs, setup_path,
                    base_existed, r_parsed, r_ext, r_ret >>
    /\ UNCHANGED << scanVars, parseVars, visitVars, collectVars >>

\* write_tmpl("py2.py", all2); write_tmpl("py3.py", all3);
\* write_tmpl("py.py", all2 | all3); print("done")
Aggregate ==
    /\ r_pc = "aggregate"
    /\ r_written' =
          WriteFile(WriteFile(WriteFile(r_written, write_tmpl(PY2_FILE, all2)),
                              write_tmpl(PY3_FILE, all3)),
                    write_tmpl(PY_FILE, Combined(all2, all3)))
    /\ r_printed' = Append(r_printed, [text |-> "done"])
    /\ r_pc' = "done"
    /\ UNCHANGED << cache, r_cur, r_runs, all2, all3, r_procs, setup_path,
                    base_existed, r_parsed, r_ext, r_ret >>
    /\ UNCHANGED << scanVars, parseVars, visitVars, collectVars >>

(***************************************************************************)
(* Specifications                                                          *)
(***************************************************************************)

InitScan == ScanIdle /\ ParseIdle /\ VisitIdle /\ CollectIdle /\ RunIdle

SpecScan == InitScan /\ [][ScanFile]_vars

InitParse == ParseInit /\ ScanIdle /\ VisitIdle /\ CollectIdle /\ RunIdle

ParseNext == TryParseEnter \/ TryParseAttempt \/ TryParseRaise

SpecParse == InitParse /\ [][ParseNext]_vars

InitVisit == VisitIdle /\ ScanIdle /\ ParseIdle /\ CollectIdle /\ RunIdle

VisitNext == VisitCall \/ VisitAssign \/ VisitOther

SpecVisit == InitVisit /\ [][VisitNext]_vars

InitCollect == CollectInit /\ ScanIdle /\ ParseIdle /\ VisitIdle /\ RunIdle

CollectNext ==
    \/ CollectLib
    \/ CollectNative
    \/ CollectInittab
    \/ CollectAliases
    \/ CollectWrite

SpecCollect == InitCollect /\ [][CollectNext]_vars

Init == RunIdle /\ ScanIdle /\ ParseIdle /\ VisitIdle /\ CollectIdle

Next ==
    \/ StartRun
    \/ RegenEnter
    \/ Wget
    \/ Tar
    \/ Lib2to3
    \/ Strip
    \/ Parse
    \/ Collect
    \/ Accumulate
    \/ Aggregate

Spec == Init /\ [][Next]_vars

(***************************************************************************)
(* C1                                                                      *)
(***************************************************************************)

\* C1: the lines write_tmpl emits for a release are strictly increasing in
\* lexicographic order (sorted, without duplicates) and none of them is the
\* empty string.
C1_SortedNoEmpty ==
    c_pc = "returned" =>
        /\ \A i \in 1..(Len(c_file.lines) - 1) :
              StrLess(c_file.lines[i], c_file.lines[i + 1])
        /\ \A i \in 1..Len(c_file.lines) : c_file.lines[i] # <<>>

\* The part of C1 that the code keeps: the lines emitted are the collected
\* names, each once, in strictly increasing order.
C1_StrictlyIncreasing ==
    c_pc = "returned" =>
        /\ \A i \in 1..(Len(c_file.lines) - 1) :
              StrLess(c_file.lines[i], c_file.lines[i + 1])
        /\ ToSet(c_file.lines) = ToSet(c_names)

(***************************************************************************)
(* C6                                                                      *)
(***************************************************************************)

\* C6: neither the set regen returns nor the table it writes contains the
\* name "__main__".
C6_NoMainPlaceholder ==
    c_pc = "returned" =>
        /\ << "_", "_", "m", "a", "i", "n", "_", "_" >> \notin c_ret
        /\ \A i \in 1..Len(c_file.lines) :
              c_file.lines[i] # << "_", "_", "m", "a", "i", "n", "_", "_" >>

(***************************************************************************)
(* C7                                                                      *)
(***************************************************************************)

\* The labels of RELEASES that are at least (3, 3), and at least (3, 5).
C7_From33 ==
    { << "3", ".", "3" >>, << "3", ".", "4" >>, << "3", ".", "5" >>,
      << "3", ".", "6" >>, << "3", ".", "7" >>, << "3", ".", "8" >>,
      << "3", ".", "9" >>, << "3", ".", "1", "0" >> }

C7_From35 == C7_From33 \ { << "3", ".", "3" >>, << "3", ".", "4" >> }

\* C7: the "# Aliases" step appends "_frozen_importlib" exactly for the
\* labels from 3.3 on and then "_frozen_importlib_external" exactly for the
\* labels from 3.5 on, "3.10" among them, and nothing for the labels below;
\* the table written and the set returned then hold the names appended.
C7_VersionGatedAliases ==
    c_pc \in {"write", "returned"} =>
        LET expected ==
                (IF c_version \in C7_From33 THEN << N_frozen_importlib >> ELSE <<>>)
                \o (IF c_version \in C7_From35
                    THEN << N_frozen_importlib_external >> ELSE <<>>)
        IN  /\ c_names = c_noalias \o expected
            /\ c_pc = "returned" =>
                  /\ ToSet(expected) \subseteq c_ret
                  /\ ToSet(expected) \subseteq ToSet(c_file.lines)

\* The table of 3.10 holds both aliases though no scanned source gave them.
C7_Witness ==
    /\ c_pc = "returned"
    /\ c_version = << "3", ".", "1", "0" >>
    /\ N_frozen_importlib \notin ToSet(c_noalias)
    /\ N_frozen_importlib_external \notin ToSet(c_noalias)
    /\ {N_frozen_importlib, N_frozen_importlib_external} \subseteq ToSet(c_file.lines)

(***************************************************************************)
(* C2, C3, C4, C9                                                          *)
(***************************************************************************)

PY26_FILE == << "p", "y", "2", "6", ".", "p", "y" >>
PY27_FILE == << "p", "y", "2", "7", ".", "p", "y" >>
PY34_FILE == << "p", "y", "3", "4", ".", "p", "y" >>
PY310_FILE == << "p", "y", "3", "1", "0", ".", "p", "y" >>

\* The table files of the tracked releases, in the order of Tracked.
ReleaseFiles == << PY26_FILE, PY27_FILE, PY34_FILE, PY310_FILE >>

Written(name) == \E f \in r_written : f.name = name

\* The set of names in the file of that name written in this run.
NamesIn(name) == UNION { ToSet(f.lines) : f \in { g \in r_written : g.name = name } }

\* C2: when a run has completed, every table was written, py2.py holds
\* exactly the names of the 2.x tables of the run, py3.py exactly those of
\* the 3.x tables, and py.py exactly those of py2.py and py3.py.
C2_AggregatesAreUnions ==
    r_pc = "done" =>
        /\ \A i \in 1..Len(ReleaseFiles) : Written(ReleaseFiles[i])
        /\ Written(PY2_FILE) /\ Written(PY3_FILE) /\ Written(PY_FILE)
        /\ NamesIn(PY2_FILE) = NamesIn(PY26_FILE) \cup NamesIn(PY27_FILE)
        /\ NamesIn(PY3_FILE) = NamesIn(PY34_FILE) \cup NamesIn(PY310_FILE)
        /\ NamesIn(PY_FILE) = NamesIn(PY2_FILE) \cup NamesIn(PY3_FILE)

\* A completed run whose tables differ from release to release and from one
\* major version to the other.
C2_Witness ==
    /\ r_pc = "done"
    /\ NamesIn(PY26_FILE) # NamesIn(PY27_FILE)
    /\ NamesIn(PY34_FILE) # NamesIn(PY310_FILE)
    /\ ~ (NamesIn(PY2_FILE) \subseteq NamesIn(PY3_FILE))
    /\ ~ (NamesIn(PY3_FILE) \subseteq NamesIn(PY2_FILE))

\* C3: in a call of regen that found the extraction directory of its release
\* in the cache, no step invokes an external process and no step changes the
\* cache, in the first run and in every re-run.
C3_CachedRegenReadOnly ==
    [][ ( \/ r_pc = "regen" /\ cache[Version].base
          \/ /\ r_pc \in {"wget", "tar", "lib2to3", "strip", "parse", "collect"}
             /\ base_existed )
        => (r_procs' = r_procs /\ cache' = cache) ]_vars

\* A re-run over a fully cached set of releases completed without invoking
\* any process.
C3_Witness ==
    /\ r_runs >= 2
    /\ r_pc = "done"
    /\ r_procs = <<>>
    /\ \A v \in ToSet(Tracked) : cache[v].base

IsAggregate(name) == name \in {PY2_FILE, PY3_FILE, PY_FILE}

\* C4: once a process of the run has exited non-zero, it is the last
\* process the run invoked, the run is aborted at that release, no table of
\* that release or of a later one and no aggregate has been written, "done"
\* has not been printed; and no process is invoked twice for a release.
C4_FailureIsFatal ==
    /\ \A i \in 1..Len(r_procs) :
          r_procs[i].rc # 0 =>
              /\ i = Len(r_procs)
              /\ r_pc = "aborted"
              /\ r_procs[i].version = Tracked[r_cur]
              /\ \A k \in r_cur..Len(ReleaseFiles) : ~ Written(ReleaseFiles[k])
              /\ ~ \E f \in r_written : IsAggregate(f.name)
              /\ \A j \in 1..Len(r_printed) : r_printed[j].text # "done"
    /\ \A i, j \in 1..Len(r_procs) :
          (i # j) =>
              << r_procs[i].tool, r_procs[i].version >>
                  # << r_procs[j].tool, r_procs[j].version >>

\* The extraction of the third release failed after two tables were written.
C4_Witness ==
    /\ r_pc = "aborted"
    /\ r_cur = 3
    /\ r_procs # <<>>
    /\ r_procs[Len(r_procs)] = [tool |-> "tar", version |-> Tracked[3], rc |-> 1]
    /\ Written(PY26_FILE) /\ Written(PY27_FILE)
    /\ ~ Written(PY34_FILE)

\* C9: the script regen parses for a 2.x release is fixed/setup.py, migrated,
\* with no line left whose stripped text is in the denylist.
C9_ParsesStrippedMigratedCopy ==
    (r_parsed # None /\ r_parsed.version[1] = "2") =>
        /\ r_parsed.path = "fixed/setup.py"
        /\ r_parsed.script.syntax = "py3"
        /\ \A i \in 1..Len(r_parsed.script.lines) :
              StrStrip(r_parsed.script.lines[i], {" ", "\n"}) \notin PY2_LINES_TO_OMIT

(***************************************************************************)
(* C5                                                                      *)
(***************************************************************************)

\* The bytes try_parse works on.
C5_Input == IF p_arg = None THEN p_file ELSE p_arg

\* C5: the versions tried are NumGrammars, NumGrammars - 1, ... in that
\* order; try_parse returns the parse of the newest version that accepts the
\* bytes and tries nothing after it; when no version accepts them it raises
\* the syntax error of the newest version, after trying every version once.
C5_NewestFirst ==
    /\ \A i \in 1..Len(p_attempts) : p_attempts[i] = NumGrammars + 1 - i
    /\ p_pc = "returned" =>
          /\ p_outcome.grammar \in C5_Input.accepts
          /\ \A v \in C5_Input.accepts : v <= p_outcome.grammar
          /\ p_outcome.data = C5_Input
          /\ p_attempts[Len(p_attempts)] = p_outcome.grammar
          /\ ~ ENABLED ParseNext
    /\ (p_pc = "raised" /\ C5_Input # Missing) =>
          /\ C5_Input.accepts = {}
          /\ Len(p_attempts) = NumGrammars
          /\ p_outcome = [syntax_error_of |-> NumGrammars]
    /\ (p_pc = "loop" /\ p_todo = <<>>) => C5_Input.accepts = {}

\* try_parse fell back from the newest grammar to an older one.
C5_WitnessFallback ==
    /\ p_pc = "returned"
    /\ Len(p_attempts) > 1
    /\ p_outcome.grammar < NumGrammars

\* Every grammar version failed and the error was raised.
C5_WitnessRaise ==
    /\ p_pc = "raised"
    /\ Len(p_attempts) = NumGrammars

(***************************************************************************)
(* C8                                                                      *)
(***************************************************************************)

\* The sampled argument lists whose first argument is a literal string
\* (the token 'a'), whatever follows it.
C8_LeadingLiteralArgs ==
    { << Arg(SimpleString(Tok_a)) >>,
      << Arg(SimpleString(Tok_a)), Arg(List(<< Element(SimpleString(Tok_C)) >>)) >>,
      << Arg(SimpleString(Tok_a)), KeywordArg("libraries", SimpleString(Tok_C)) >>,
      << KeywordArg("name", SimpleString(Tok_a)) >> }

\* The literal-string elements of the sampled list values, in order.
C8_ListStrings(value) ==
    CASE value = List(<< Element(SimpleString(Tok_Qt)), Element(SimpleString(Tok_C)) >>)
           -> << << "_", "Q", "t" >>, << "C" >> >>
      [] value = List(<< Element(Name("x")), Element(SimpleString(Tok_Qt)) >>)
           -> << << "_", "Q", "t" >> >>
      [] value = List(<< Element(SimpleString(Tok_C)),
                         Element(List(<< Element(SimpleString(Tok_a)) >>)),
                         Element(SimpleString(Tok_C)) >>)
           -> << << "C" >>, << "C" >> >>
      [] OTHER -> <<>>

\* The names one node is expected to add.
C8_Recorded(node) ==
    IF /\ node \in SampleCalls
       /\ node.func \in {Name("Extension"), Name("addMacExtension")}
       /\ node.args \in C8_LeadingLiteralArgs
    THEN << << "a" >> >>
    ELSE IF /\ node \in SampleAssigns
            /\ node.targets = << AssignTarget(Name("CARBON_EXTS")) >>
    THEN C8_ListStrings(node.value)
    ELSE <<>>

FallbackName(file) ==
    CASE file = << "_", "w", "a", "r", "n", "i", "n", "g", "s", ".", "c" >>
           -> << << "_", "w", "a", "r", "n", "i", "n", "g", "s" >> >>
      [] file = << "_", "s", "r", "e", ".", "c" >>
           -> << << "_", "s", "r", "e" >> >>
      [] file = << "p", "y", "e", "x", "p", "a", "t", ".", "c" >>
           -> << << "p", "y", "e", "x", "p", "a", "t" >> >>
      [] file = << "_", "b", "s", "d", "d", "b", ".", "c" >>
           -> << << "_", "b", "s", "d", "d", "b" >> >>
      [] file = << "s", "o", "c", "k", "e", "t", "m", "o", "d", "u", "l", "e", ".", "c" >>
           -> << << "s", "o", "c", "k", "e", "t" >> >>
      [] file = << "p", "o", "s", "i", "x", "m", "o", "d", "u", "l", "e", ".", "c" >>
           -> << << "p", "o", "s", "i", "x" >> >>
      [] OTHER -> <<>>

\* C10: after each iteration of the native-source scan, a file whose match is
\* a quoted literal has added the unquoted name; otherwise one of the four
\* override files has added its stem; otherwise socketmodule.c or
\* posixmodule.c has added the name before "module"; otherwise one
\* diagnostic is printed and no name is added; a file with no match adds
\* nothing and prints nothing. The scan goes on to the next file in each case.
C10_ResolutionOrder ==
    n_count > 0 =>
        LET added == Drop(n_names, Len(n_before.names))
            said == Drop(n_printed, Len(n_before.printed))
        IN  /\ Take(n_names, Len(n_before.names)) = n_before.names
            /\ Take(n_printed, Len(n_before.printed)) = n_before.printed
            /\ n_cur.data \in UnmatchedData => added = <<>> /\ said = <<>>
            /\ n_cur.data \in LiteralData => added = << IoName >> /\ said = <<>>
            /\ n_cur.data \in UnresolvedData =>
                  /\ added = FallbackName(n_cur.name)
                  /\ Len(said) = (IF n_cur.name \in OtherFiles THEN 1 ELSE 0)
                  /\ \A i \in 1..Len(said) : said[i].file = n_cur.name
            /\ (n_count < MaxFiles => ENABLED ScanFile)

\* An unresolved file was skipped with a diagnostic and the scan went on to
\* resolve an override file that holds a literal.
C10_Witness ==
    /\ n_count = 2
    /\ Len(n_before.printed) = 1
    /\ n_before.names = <<>>
    /\ n_cur.name \in OverrideFiles
    /\ n_cur.data \in LiteralData
    /\ n_names = << IoName >>

====
